---- MODULE Spec2Model ----
(***************************************************************************)
(* Model of the table gateway of GET_API_Supabase_Tiximax.                 *)
(*                                                                         *)
(* The repository holds alternative entry points of the same gateway; a    *)
(* process runs exactly one of them.  Two are modelled:                    *)
(*   "supabase_api"  src/supabase_api.py   raw parameterised SQL (psycopg2)*)
(*   "api_index"     src/api/index.py      supabase query builder          *)
(*                                                                         *)
(* Text is modelled as a sequence of atoms.  An atom is one character      *)
(* (",", " ", "A") or an indivisible word that holds neither a comma, nor  *)
(* white space, nor the operator delimiter ("status", "1001", "null");     *)
(* the delimiter "__" is an atom of its own.  Splitting, stripping and     *)
(* lower-casing work on atoms as the Python string methods work on         *)
(* characters.                                                             *)
(***************************************************************************)
EXTENDS Integers, Sequences, FiniteSets, TLC

VARIABLES
    app,           \* which entry point the process runs
    SCHEMA_CACHE,  \* the module-level dict SCHEMA_CACHE: table -> schema
    last,          \* the last request served: what came in, what went out,
                   \* and the backend calls made while serving it
    pc,            \* per worker thread: position inside table_schema
    local          \* per worker thread: the locals of table_schema/get_schema

vars == <<app, SCHEMA_CACHE, last, pc, local>>

----------------------------------------------------------------------------
(* Bounds of the model *)

\* longest filter operand, in atoms
MaxValLen == 3
\* most filter parameters in one query string
MaxFilters == 2
\* most rows of the table that match the filters of a query
MaxRows == 2

----------------------------------------------------------------------------
(* Text helpers *)

\* Python: sep in s
Contains(s, a) == \E i \in 1..Len(s) : s[i] = a

\* index of the first occurrence of atom a in s (0 when absent)
FirstIndex(s, a) ==
    IF Contains(s, a) THEN CHOOSE i \in 1..Len(s) : s[i] = a /\ \A j \in 1..(i-1) : s[j] # a
    ELSE 0

\* Python: s.split(sep): the segments between the separators, empty ones
\* kept. The k-th segment lies between the (k-1)-th and the k-th separator
Split(s, sep) ==
    LET at == {i \in 1..Len(s) : s[i] = sep}
        \* the position of the k-th separator; 0 and Len(s)+1 bound the text
        pos(k) == IF k = 0 THEN 0
                  ELSE IF k > Cardinality(at) THEN Len(s) + 1
                  ELSE CHOOSE i \in at : Cardinality({j \in at : j < i}) = k - 1
    IN [k \in 1..(Cardinality(at) + 1) |-> SubSeq(s, pos(k - 1) + 1, pos(k) - 1)]

\* Python: s.strip(): leading and trailing white space removed
Strip(s) ==
    LET ink == {i \in 1..Len(s) : s[i] # " "}
    IN IF ink = {} THEN <<>>
       ELSE SubSeq(s, CHOOSE i \in ink : \A j \in ink : i <= j,
                      CHOOSE i \in ink : \A j \in ink : j <= i)

\* Python: s.lower(), on the atoms that have an upper-case letter
LowerAtom(a) ==
    CASE a = "NULL" -> "null"
      [] a = "True" -> "true"
      [] a = "A"    -> "a"
      [] OTHER      -> a

Lower(s) == [i \in 1..Len(s) |-> LowerAtom(s[i])]

\* the elements of a sequence
Range(s) == {s[i] : i \in 1..Len(s)}

NotBlank(x) == Strip(x) # <<>>

\* Python: [x.strip() for x in xs if x.strip()]
StripNonEmpty(xs) ==
    LET kept == SelectSeq(xs, NotBlank) IN [i \in 1..Len(kept) |-> Strip(kept[i])]

\* the concatenation of a sequence of sequences
Flatten(ss) ==
    LET F[i \in 0..Len(ss)] == IF i = 0 THEN <<>> ELSE F[i - 1] \o ss[i]
    IN F[Len(ss)]

\* Python: key.split("__", 1) when "__" in key, else ("eq", key)
SplitKeyAt(key, i) ==
    IF i = 0 THEN [op |-> <<"eq">>, col |-> key]
    ELSE [op |-> SubSeq(key, 1, i - 1), col |-> SubSeq(key, i + 1, Len(key))]

SplitKey(key) == SplitKeyAt(key, FirstIndex(key, "__"))

\* the numerals of the model and the integers they denote
IntOf ==
    [a \in {"-1", "0", "1", "5", "1000", "1001"} |->
        CASE a = "-1" -> 0 - 1
          [] a = "0" -> 0
          [] a = "1" -> 1
          [] a = "5" -> 5
          [] a = "1000" -> 1000
          [] a = "1001" -> 1001]

\* Python: int(s) succeeds
IsInt(s) == Len(s) = 1 /\ s[1] \in DOMAIN IntOf

\* Python: int(s)
ParseInt(s) == IntOf[s[1]]

----------------------------------------------------------------------------
(* Configuration and backing store *)

\* the entry points
Apps == {"supabase_api", "api_index"}

\* INTERNAL_API_KEY
API_KEY == "k3y"

\* X-API-Key as received: "" stands for a request without the header,
\* "nonascii" for a header value that holds a byte above 0x7f
Headers == {"", "k3y", "wrong", "nonascii"}

IsAscii(h) == h # "nonascii"

\* table names a request may carry; "secret" exists in the database but is
\* in no allow-list
TableNames == {"orders", "secret"}

\* the allow-list of supabase_api.py (27 names in the source, one kept)
TABLES == {"orders"}

\* the allow-list of api/index.py (21 names in the source, one kept)
IX_TABLES == {"orders"}

\* the columns the database has for each table, in ordinal position
DbColumns ==
    [t \in TableNames |->
        IF t = "orders" THEN << <<"id">>, <<"status">> >> ELSE << <<"token">> >>]

\* what a schema probe can meet: the columns, no columns (supabase_api.py: no
\* such table in schema public; api/index.py: the table has no row), or an
\* exception (connection refused, timeout)
ProbeOutcomes == {"ok", "empty", "fail"}

\* what the row query can meet
ExecOutcomes == {"ok", "fail"}

\* limit: int = Query(100, ...) and qs.get("limit", ["100"])
DEFAULT_LIMIT == 100
\* Query(..., le=1000) and min(..., 1000)
MAX_LIMIT == 1000
\* Query(..., ge=1)
MIN_LIMIT == 1

----------------------------------------------------------------------------
(* Query string: a sequence of [k, v] pairs with distinct keys *)

Has(qs, key) == \E i \in 1..Len(qs) : qs[i].k = key

\* the value of key, or dflt when the key is absent
Get(qs, key, dflt) ==
    IF Has(qs, key) THEN qs[CHOOSE i \in 1..Len(qs) : qs[i].k = key].v ELSE dflt

\* the parameter names every handler treats as reserved
skip == {<<"select">>, <<"order">>, <<"desc">>, <<"limit">>, <<"offset">>, <<"count">>}

----------------------------------------------------------------------------
(* Results *)

NoDetail == [kind |-> "none", names |-> <<>>]
Detail(kind, names) == [kind |-> kind, names |-> names]

NoPlan == [sql |-> <<>>, params |-> <<>>, calls |-> <<>>, limit |-> 0, offset |-> 0]

\* get_schema was not reached
NoSchema == [called |-> FALSE, value |-> <<>>]

\* SQL text, as tokens: a keyword or punctuation of the statement, a quoted
\* identifier, a %s placeholder, or a literal written into the text
Kw(s) == [k |-> "kw", s |-> <<s>>]
Id(name) == [k |-> "id", s |-> name]
Ph == [k |-> "ph", s |-> <<"%s">>]
Lit(v) == [k |-> "lit", s |-> v]

\* bound parameters
PStr(s) == [k |-> "str", s |-> s, n |-> 0]
PInt(n) == [k |-> "int", s |-> <<>>, n |-> n]

MapPStr(xs) == [i \in 1..Len(xs) |-> PStr(xs[i])]

\* Python: sep.join(parts), on token sequences
Join(parts, sep) ==
    Flatten([i \in 1..Len(parts) |-> IF i = 1 THEN parts[i] ELSE sep \o parts[i]])

----------------------------------------------------------------------------
(* supabase_api.py *)

\* check_api_key: hmac.compare_digest(header, API_KEY); compare_digest raises
\* TypeError on a str with a non-ASCII character, which the global
\* exception handler answers with 500
check_api_key(hdr) ==
    IF ~IsAscii(hdr) THEN 500
    ELSE IF hdr # API_KEY THEN 401
    ELSE 200

get_table_or_404_nocheck(table) == TRUE

\* get_table_or_404: TRUE when the table passes
get_table_or_404(table) == table \in TABLES

\* fetch_schema: the rows of information_schema.columns as descriptors; any
\* exception is caught and gives []
fetch_schema(table, outcome) ==
    IF outcome = "ok"
    THEN [i \in 1..Len(DbColumns[table]) |-> [name |-> DbColumns[table][i]]]
    ELSE <<>>

\* dict assignment d[key] = value
DictSet(d, key, value) ==
    [x \in DOMAIN d \cup {key} |-> IF x = key THEN value ELSE d[x]]

\* get_schema: [cache: the dict afterwards, value: what is returned,
\* probes: backend calls made]
get_schema(cache, table, outcome) ==
    IF table \notin DOMAIN cache
    THEN LET c2 == DictSet(cache, table, fetch_schema(table, outcome))
         IN [cache |-> c2, value |-> c2[table], probes |-> 1]
    ELSE [cache |-> cache, value |-> cache[table], probes |-> 0]

\* allowed_columns_set, given what get_schema returned
allowed_columns_set(schema) == {schema[i].name : i \in 1..Len(schema)}

ColumnRejected_bypass(col, allowed) == allowed # {} /\ col \notin allowed

\* build_where_clause line 114: col not in allowed
ColumnRejected(col, allowed) == col \notin allowed

\* the comparison operators of build_where_clause and their SQL
CompareOps ==
    {<<"eq">>, <<"ne">>, <<"gt">>, <<"gte">>, <<"lt">>, <<"lte">>, <<"like">>, <<"ilike">>}

SqlOp(op) ==
    CASE op = <<"eq">> -> "="
      [] op = <<"ne">> -> "!="
      [] op = <<"gt">> -> ">"
      [] op = <<"gte">> -> ">="
      [] op = <<"lt">> -> "<"
      [] op = <<"lte">> -> "<="
      [] op = <<"like">> -> "LIKE"
      [] op = <<"ilike">> -> "ILIKE"

\* ", ".join(["%s"] * n)
Placeholders(n) == Join([i \in 1..n |-> <<Ph>>], <<Kw(",")>>)

WhereOk(conditions, values) ==
    [status |-> 200, detail |-> NoDetail, conditions |-> conditions, values |-> values]
WhereErr(detail) ==
    [status |-> 400, detail |-> detail, conditions |-> <<>>, values |-> <<>>]

InClause_interpolated(col, items) ==
    IF items = <<>> THEN WhereOk(<<>>, <<>>)
    ELSE WhereOk(<< <<Id(col), Kw("IN"), Kw("(")>>
                    \o Join([i \in 1..Len(items) |-> <<Lit(items[i])>>], <<Kw(",")>>)
                    \o <<Kw(")")>> >>, <<>>)

\* build_where_clause lines 143-147: no item, no condition; otherwise one
\* placeholder per item
InClause(col, items) ==
    IF items = <<>> THEN WhereOk(<<>>, <<>>)
    ELSE WhereOk(<< <<Id(col), Kw("IN"), Kw("(")>> \o Placeholders(Len(items))
                    \o <<Kw(")")>> >>,
                 items)

\* build_where_clause lines 148-157, given str(val).lower()
IsClause(col, v) ==
    IF v = <<"null">> THEN WhereOk(<< <<Id(col), Kw("IS NULL")>> >>, <<>>)
    ELSE IF v = <<"true">> THEN WhereOk(<< <<Id(col), Kw("IS TRUE")>> >>, <<>>)
    ELSE IF v = <<"false">> THEN WhereOk(<< <<Id(col), Kw("IS FALSE")>> >>, <<>>)
    ELSE WhereErr(Detail("is", <<>>))

\* build_where_clause lines 114-157, given the operator and the column
WhereCondition(op, col, val, allowed) ==
    IF ColumnRejected(col, allowed) THEN WhereErr(Detail("column", <<col>>))
    ELSE IF op \in CompareOps THEN WhereOk(<< <<Id(col), Kw(SqlOp(op)), Ph>> >>, <<val>>)
    ELSE IF op = <<"in">> THEN InClause(col, StripNonEmpty(Split(val, ",")))
    ELSE IF op = <<"is">> THEN IsClause(col, Lower(val))
    ELSE WhereOk(<<>>, <<>>)

\* build_where_clause, one pass of the loop body (lines 106-157)
WhereItem(key, val, allowed) ==
    IF key \in skip \/ val = <<>> THEN WhereOk(<<>>, <<>>)
    ELSE WhereCondition(SplitKey(key).op, SplitKey(key).col, val, allowed)

\* the outcome of the loop, given the outcome of each pass: the first failing
\* item raises; otherwise the conditions and values of all items, in order
WhereCollect(each) ==
    IF \E i \in 1..Len(each) : each[i].status # 200
    THEN each[CHOOSE i \in 1..Len(each) :
                 /\ each[i].status # 200
                 /\ \A j \in 1..(i - 1) : each[j].status = 200]
    ELSE WhereOk(Flatten([i \in 1..Len(each) |-> each[i].conditions]),
                 Flatten([i \in 1..Len(each) |-> each[i].values]))

\* build_where_clause, the loop over params.items()
WhereLoop(items, allowed) ==
    WhereCollect([i \in 1..Len(items) |-> WhereItem(items[i].k, items[i].v, allowed)])

\* build_where_clause lines 159-160, given the schema read and the loop's
\* outcome: where_clause is " WHERE " + " AND ".join(conditions), or empty
WhereResult(gs, w) ==
    [status |-> w.status, detail |-> w.detail,
     where_clause |-> IF w.conditions = <<>> THEN <<>>
                      ELSE <<Kw("WHERE")>> \o Join(w.conditions, <<Kw("AND")>>),
     values |-> w.values, cache |-> gs.cache, probes |-> gs.probes]

\* the loop of build_where_clause over the schema get_schema returned
WhereOver(qs, gs) == WhereResult(gs, WhereLoop(qs, allowed_columns_set(gs.value)))

\* build_where_clause(params, table): allowed_columns_set(table) reads the
\* schema through get_schema
build_where_clause(qs, cache, table, outcome) ==
    WhereOver(qs, get_schema(cache, table, outcome))

\* the texts FastAPI reads as a bool
TrueTexts == {<<"true">>, <<"1">>, <<"on">>, <<"t">>, <<"y">>, <<"yes">>}
FalseTexts == {<<"false">>, <<"0">>, <<"off">>, <<"f">>, <<"n">>, <<"no">>}

\* the declared query parameters of endpoint (lines 212-217); FastAPI
\* validates them before the function body runs. TRUE when they pass
QueryValid(qs) ==
    /\ Has(qs, <<"desc">>) => Lower(Get(qs, <<"desc">>, <<>>)) \in TrueTexts \cup FalseTexts
    /\ Has(qs, <<"limit">>) =>
          /\ IsInt(Get(qs, <<"limit">>, <<>>))
          /\ ParseInt(Get(qs, <<"limit">>, <<>>)) >= MIN_LIMIT
          /\ ParseInt(Get(qs, <<"limit">>, <<>>)) <= MAX_LIMIT
    /\ Has(qs, <<"offset">>) =>
          /\ IsInt(Get(qs, <<"offset">>, <<>>))
          /\ ParseInt(Get(qs, <<"offset">>, <<>>)) >= 0
    /\ Has(qs, <<"count">>) =>
          Get(qs, <<"count">>, <<>>) \in {<<>>, <<"exact">>, <<"planned">>, <<"estimated">>}

\* no rows were fetched
NoBody == [count |-> 0, returned |-> 0, data |-> <<>>]

\* a response and what serving it did: the cache afterwards, the schema
\* probes and row queries issued, what get_schema returned, the query built
Response(status, detail, cache, probes, queries, gs, plan) ==
    [status |-> status, detail |-> detail, cache |-> cache, probes |-> probes,
     queries |-> queries, gs |-> gs, plan |-> plan, matching |-> 0, body |-> NoBody]

Invalid_none(cols, allowed) == <<>>

\* [c for c in cols if c not in allowed_cols]
Invalid(cols, allowed) == LET Bad(c) == c \notin allowed IN SelectSeq(cols, Bad)

\* ", ".join(f'"{c}"' for c in cols)
SelectList(cols) == Join([i \in 1..Len(cols) |-> <<Id(cols[i])>>], <<Kw(",")>>)

\* endpoint lines 249-256: the statement and its parameter list
BuildQuery(final_select, t, where_clause, order_clause, where_values, limit, offset) ==
    [sql |-> <<Kw("SELECT")>> \o final_select \o <<Kw("FROM"), Id(<<t>>)>>
             \o where_clause \o order_clause
             \o <<Kw("LIMIT"), Ph, Kw("OFFSET"), Ph>>,
     params |-> MapPStr(where_values) \o <<PInt(limit), PInt(offset)>>,
     calls |-> <<>>, limit |-> limit, offset |-> offset]

\* endpoint lines 236-256, given the select list and the where clause
endpoint_query(req, gs, select_clean, bw) ==
    LET qs == req.qs
        allowed_cols == allowed_columns_set(gs.value)
        seen == [called |-> TRUE, value |-> gs.value]
        order == Get(qs, <<"order">>, <<>>)
        desc == IF Has(qs, <<"desc">>)
                THEN Lower(Get(qs, <<"desc">>, <<>>)) \in TrueTexts ELSE TRUE
        count == Get(qs, <<"count">>, <<>>)
        limit == IF Has(qs, <<"limit">>) THEN ParseInt(Get(qs, <<"limit">>, <<>>))
                 ELSE DEFAULT_LIMIT
        offset == IF Has(qs, <<"offset">>) THEN ParseInt(Get(qs, <<"offset">>, <<>>))
                  ELSE 0
        order_clause ==
            IF order # <<>>
            THEN <<Kw("ORDER BY"), Id(order), Kw(IF desc THEN "DESC" ELSE "ASC")>>
            ELSE <<>>
        count_select == IF count # <<>> THEN <<Kw("COUNT(*) OVER() AS full_count,")>>
                        ELSE <<>>
        final_select == IF select_clean # <<Kw("*")>> \/ count # <<>>
                        THEN count_select \o select_clean ELSE select_clean
    IN
    IF bw.status # 200
    THEN Response(bw.status, bw.detail, bw.cache, gs.probes + bw.probes, 0, seen, NoPlan)
    ELSE IF order # <<>> /\ order \notin allowed_cols
    THEN Response(400, Detail("order", <<order>>), bw.cache, gs.probes + bw.probes, 0,
                  seen, NoPlan)
    ELSE Response(200, NoDetail, bw.cache, gs.probes + bw.probes, 1, seen,
                  BuildQuery(final_select, req.table, bw.where_clause, order_clause,
                             bw.values, limit, offset))

\* endpoint lines 224-234, given the columns asked for
endpoint_select(req, gs, select, cols, outcome) ==
    IF select # <<"*">> /\ Invalid(cols, allowed_columns_set(gs.value)) # <<>>
    THEN Response(400, Detail("select", Invalid(cols, allowed_columns_set(gs.value))),
                  gs.cache, gs.probes, 0, [called |-> TRUE, value |-> gs.value], NoPlan)
    ELSE endpoint_query(req, gs,
                        IF select = <<"*">> THEN <<Kw("*")>> ELSE SelectList(cols),
                        build_where_clause(req.qs, gs.cache, req.table, outcome))

\* endpoint lines 223-227, given what get_schema returned
endpoint_schema(req, gs, outcome) ==
    endpoint_select(req, gs, Get(req.qs, <<"select">>, <<"*">>),
                    StripNonEmpty(Split(Get(req.qs, <<"select">>, <<"*">>), ",")), outcome)

\* create_table_endpoint.endpoint for one registered table, up to the point
\* where the statement is handed to the cursor (queries = 1)
endpoint(req, cache, outcome) ==
    IF ~QueryValid(req.qs)
    THEN Response(422, Detail("query", <<>>), cache, 0, 0, NoSchema, NoPlan)
    ELSE IF check_api_key(req.hdr) # 200
    THEN Response(check_api_key(req.hdr), NoDetail, cache, 0, 0, NoSchema, NoPlan)
    ELSE IF ~get_table_or_404(req.table)
    THEN Response(404, Detail("table", << <<req.table>> >>), cache, 0, 0, NoSchema, NoPlan)
    ELSE endpoint_schema(req, get_schema(cache, req.table, outcome), outcome)

\* endpoint lines 258-277: the cursor runs the statement; an exception
\* becomes 502
Executed(r, xo) ==
    IF r.queries = 1 /\ xo = "fail" THEN [r EXCEPT !.status = 502, !.detail = Detail("backend", <<>>)]
    ELSE r

\* the rows the statement yields when n rows of the table satisfy its WHERE
\* clause: LIMIT and OFFSET cut the window out of them, and COUNT(*) OVER(),
\* when the select list has it, puts n in every row of the window
WindowSize(n, limit, offset) ==
    IF n <= offset THEN 0 ELSE IF n - offset < limit THEN n - offset ELSE limit

cur_fetchall(plan, n) ==
    [i \in 1..WindowSize(n, plan.limit, plan.offset) |->
        [row |-> plan.offset + i,
         full_count |-> IF Kw("COUNT(*) OVER() AS full_count,") \in Range(plan.sql)
                        THEN <<n>> ELSE <<>>]]

\* endpoint line 265: data[0].get("full_count") if count and data else None;
\* <<>> stands for None
Total(count, data) == IF count # <<>> /\ data # <<>> THEN data[1].full_count ELSE <<>>

\* Python: a or b, for a an integer or None
Or(a, b) == IF a # <<>> /\ a[1] # 0 THEN a[1] ELSE b

\* endpoint lines 267-274: the count, returned and data fields of the body
ResponseBody(count, data) ==
    [count |-> Or(Total(count, data), Len(data)), returned |-> Len(data), data |-> data]

\* endpoint lines 261-274: the rows are fetched and the body is built, when
\* the statement ran
Fetched(r, qs, n) ==
    IF r.queries = 1 /\ r.status = 200
    THEN [r EXCEPT !.matching = n,
                   !.body = ResponseBody(Get(qs, <<"count">>, <<>>), cur_fetchall(r.plan, n))]
    ELSE r

\* table_schema line 206, given what get_schema returned
SchemaResponse(gs) ==
    Response(200, NoDetail, gs.cache, gs.probes, 0,
             [called |-> TRUE, value |-> gs.value], NoPlan)

\* table_schema
table_schema(req, cache, outcome) ==
    IF check_api_key(req.hdr) # 200
    THEN Response(check_api_key(req.hdr), NoDetail, cache, 0, 0, NoSchema, NoPlan)
    ELSE IF ~get_table_or_404(req.table)
    THEN Response(404, Detail("table", << <<req.table>> >>), cache, 0, 0, NoSchema, NoPlan)
    ELSE SchemaResponse(get_schema(cache, req.table, outcome))

\* list_tables
list_tables(req, cache) ==
    IF check_api_key(req.hdr) # 200
    THEN Response(check_api_key(req.hdr), NoDetail, cache, 0, 0, NoSchema, NoPlan)
    ELSE Response(200, NoDetail, cache, 0, 0, NoSchema, NoPlan)

----------------------------------------------------------------------------
(* api/index.py *)

\* urllib.parse.parse_qs(query): pairs with a blank value are left out
parse_qs(qs) == LET Valued(p) == p.v # <<>> IN SelectSeq(qs, Valued)

\* get_schema of api/index.py: the keys of one row; a failed probe gives []
\* and is not stored
ix_get_schema(cache, table, outcome) ==
    IF table \in DOMAIN cache
    THEN [cache |-> cache, value |-> cache[table], probes |-> 0]
    ELSE IF outcome = "fail"
    THEN [cache |-> cache, value |-> <<>>, probes |-> 1]
    ELSE LET schema == IF outcome = "ok" THEN DbColumns[table] ELSE <<>>
         IN [cache |-> DictSet(cache, table, schema), value |-> schema, probes |-> 1]

\* a call on the query builder
Call(m, col, args) == [m |-> m, col |-> col, args |-> args]

\* the builder method apply_filters calls for an operator
BuilderOps ==
    {<<"eq">>, <<"ne">>, <<"gt">>, <<"gte">>, <<"lt">>, <<"lte">>, <<"like">>, <<"ilike">>}

BuilderMethod(op) == IF op = <<"ne">> THEN "neq" ELSE op[1]

\* apply_filters lines 63-75, given the operator and the column: the calls
\* added
FilterCall(op, col, v, schema) ==
    IF col \notin schema THEN <<>>
    ELSE IF op \in BuilderOps THEN <<Call(BuilderMethod(op), col, <<v>>)>>
    ELSE IF op = <<"in">> THEN <<Call("in_", col, Split(v, ","))>>
    ELSE <<>>

\* apply_filters, one pass of the loop body (lines 57-77)
FilterItem(key, v, schema) ==
    IF key \in skip THEN <<>>
    ELSE FilterCall(SplitKey(key).op, SplitKey(key).col, v, schema)

\* apply_filters, the loop over params.items()
FilterLoop(items, schema) ==
    Flatten([i \in 1..Len(items) |-> FilterItem(items[i].k, items[i].v, schema)])

\* apply_filters, given what get_schema returned
FiltersOver(params, gs) ==
    [calls |-> FilterLoop(params, Range(gs.value)), cache |-> gs.cache,
     probes |-> gs.probes, value |-> gs.value]

\* apply_filters(query, params, table)
apply_filters(params, cache, table, outcome) ==
    FiltersOver(params, ix_get_schema(cache, table, outcome))

\* proxy lines 106-110, given the parsed parameters and the filters applied
proxy_query(qs, limit, offset, af) ==
    LET select == Get(qs, <<"select">>, <<"*">>)
        order == Get(qs, <<"order">>, <<>>)
        desc == Lower(Get(qs, <<"desc">>, <<"false">>)) = <<"true">>
        count == Get(qs, <<"count">>, <<"None">>)
    IN Response(200, NoDetail, af.cache, af.probes, 1,
                [called |-> TRUE, value |-> af.value],
                [sql |-> <<>>, params |-> <<>>,
                 calls |-> <<Call("select", select,
                                  << <<IF count = <<"True">> THEN "count" ELSE "nocount">> >>)>>
                           \o af.calls
                           \o (IF order # <<>>
                               THEN <<Call("order", order,
                                           << <<IF desc THEN "desc" ELSE "asc">> >>)>>
                               ELSE <<>>)
                           \o <<Call("range", <<>>, <<>>)>>,
                 limit |-> limit, offset |-> offset])

\* Python: min(a, b)
Min(a, b) == IF a < b THEN a ELSE b

\* proxy lines 98-110, given parse_qs(request.url.query)
proxy_parsed(req, qs, cache, outcome) ==
    IF \/ Has(qs, <<"limit">>) /\ ~IsInt(Get(qs, <<"limit">>, <<>>))
       \/ Has(qs, <<"offset">>) /\ ~IsInt(Get(qs, <<"offset">>, <<>>))
    THEN Response(500, Detail("server", <<>>), cache, 0, 0, NoSchema, NoPlan)
    ELSE proxy_query(qs,
                     Min(IF Has(qs, <<"limit">>) THEN ParseInt(Get(qs, <<"limit">>, <<>>))
                         ELSE DEFAULT_LIMIT, MAX_LIMIT),
                     IF Has(qs, <<"offset">>) THEN ParseInt(Get(qs, <<"offset">>, <<>>))
                     ELSE 0,
                     apply_filters(qs, cache, req.table, outcome))

\* proxy, up to q.execute() (queries = 1)
proxy(req, cache, outcome) ==
    IF req.hdr # API_KEY
    THEN Response(401, NoDetail, cache, 0, 0, NoSchema, NoPlan)
    ELSE IF req.table \notin IX_TABLES
    THEN Response(404, Detail("table", << <<req.table>> >>), cache, 0, 0, NoSchema, NoPlan)
    ELSE proxy_parsed(req, parse_qs(req.qs), cache, outcome)

\* proxy lines 112-123: q.execute(); an exception becomes 500
IxExecuted(r, xo) ==
    IF r.queries = 1 /\ xo = "fail" THEN [r EXCEPT !.status = 500, !.detail = Detail("server", <<>>)]
    ELSE r

----------------------------------------------------------------------------
(* Requests *)

\* all texts of at most n atoms over the atoms in A
Texts(A, n) == UNION {[1..k -> A] : k \in 0..n}

Pair(k, v) == [k |-> k, v |-> v]

\* operands of an in filter: every text over "A" and "," up to the bound,
\* and some with white space
InValues ==
    Texts({"A", ","}, MaxValLen) \cup {<<" ">>, <<" ", "A">>, <<"A", ",", " ">>}

\* query strings with one filter: in on a column of the schema with every
\* operand; columns of the schema (id, status) and outside it (foo), bare and
\* with operators, known and unknown, with a blank and a plain operand; is with
\* the words it knows and one it does not
QsFilter ==
    {<<Pair(<<"in", "__", "status">>, v)>> : v \in InValues}
    \cup {<<Pair(k, v)>> :
            k \in {<<"status">>, <<"foo">>, <<"gt", "__", "id">>, <<"in", "__", "foo">>,
                   <<"bogus", "__", "status">>},
            v \in {<<>>, <<"A">>}}
    \cup {<<Pair(<<"is", "__", "status">>, v)>> : v \in {<<"null">>, <<"NULL">>, <<"A">>}}
    \cup {<<Pair(<<"is", "__", "foo">>, <<"true">>)>>}

\* query strings that vary the row window
QsWindow ==
    {<<Pair(<<"limit">>, v)>> : v \in {<<"0">>, <<"1000">>, <<"1001">>, <<"A">>}}
    \cup {<<Pair(<<"offset">>, v)>> : v \in {<<"-1">>, <<"5">>}}
    \cup {<<Pair(<<"limit">>, <<"5">>), Pair(<<"offset">>, <<"5">>)>>}

\* query strings that vary the select list, the order and the count
QsShape ==
    {<<Pair(<<"select">>, v)>> : v \in {<<"id">>, <<"id", ",", " ", "status">>, <<"foo">>}}
    \cup {<<Pair(<<"order">>, v)>> : v \in {<<"id">>, <<"foo">>}}
    \cup {<<Pair(<<"order">>, <<"id">>), Pair(<<"desc">>, v)>> : v \in {<<"false">>, <<"True">>}}
    \cup {<<Pair(<<"count">>, v)>> : v \in {<<"exact">>, <<"True">>, <<"junk">>}}
    \cup {<<Pair(<<"desc">>, <<"junk">>)>>}

\* query strings that ask for the total count of a window
QsCount ==
    {<<Pair(<<"count">>, <<"exact">>), Pair(<<"offset">>, v)>> : v \in {<<"1">>, <<"5">>}}
    \cup {<<Pair(<<"count">>, <<"exact">>), Pair(<<"limit">>, <<"1">>)>>,
          <<Pair(<<"count">>, <<"exact">>), Pair(<<"status">>, <<"A">>)>>,
          <<Pair(<<"count">>, <<>>), Pair(<<"offset">>, <<"1">>)>>}

\* filters combined in one query string
FilterPool ==
    {Pair(<<"status">>, <<"A">>), Pair(<<"in", "__", "id">>, <<"A", ",", "A">>),
     Pair(<<"foo">>, <<"A">>)}

QsFilters ==
    {q \in UNION {[1..n -> FilterPool] : n \in 2..MaxFilters} :
        \A i, j \in 1..Len(q) : i # j => q[i].k # q[j].k}

\* the requests to GET /api/{table}: every header and table with a few query
\* strings, and the authenticated requests to an exposed table with all
Requests ==
    [hdr : Headers, table : TableNames,
     qs : {<<>>, <<Pair(<<"limit">>, <<"0">>)>>}]
    \cup [hdr : {API_KEY}, table : {"orders"},
          qs : QsWindow \cup QsShape \cup QsCount \cup QsFilter \cup QsFilters]
    \cup [hdr : {API_KEY}, table : {"secret"},
          qs : {<<Pair(<<"token">>, <<"A">>)>>, <<Pair(<<"select">>, <<"token">>)>>,
                <<Pair(<<"limit">>, <<"A">>)>>}]

\* the requests to the meta endpoints
MetaRequests == [hdr : Headers, table : TableNames, qs : {<<>>}]

----------------------------------------------------------------------------
(* The process, one request at a time *)

EmptyDict == [t \in {} |-> <<>>]

NoRequest == [hdr |-> "", table |-> "orders", qs |-> <<>>]

Served(ep, req, r) ==
    [ep |-> ep, req |-> req, status |-> r.status, detail |-> r.detail,
     probes |-> r.probes, queries |-> r.queries, gs |-> r.gs, plan |-> r.plan,
     matching |-> r.matching, body |-> r.body]

\* worker threads of the pool that runs the sync handlers
NThreads == 2
Threads == 1..NThreads

NoLocal == [req |-> NoRequest, fetched |-> <<>>, status |-> 0, columns |-> <<>>]

Init ==
    /\ app \in Apps
    /\ SCHEMA_CACHE = EmptyDict
    /\ last = Served("none", NoRequest,
                     Response(0, NoDetail, EmptyDict, 0, 0, NoSchema, NoPlan))
    /\ pc = [th \in Threads |-> "idle"]
    /\ local = [th \in Threads |-> NoLocal]

\* the response goes out: the request is on record and the dict is as the
\* handler left it
Respond(ep, req, r) ==
    /\ last' = Served(ep, req, r)
    /\ SCHEMA_CACHE' = r.cache

\* the row query, when one was issued, succeeds or fails
RawRespond(req, r) ==
    \E xo \in (IF r.queries = 0 THEN {"ok"} ELSE ExecOutcomes) :
        \E n \in (IF r.queries = 1 /\ xo = "ok" THEN 0..MaxRows ELSE {0}) :
            Respond("table", req, Fetched(Executed(r, xo), req.qs, n))

IxRespond(req, r) ==
    \E xo \in (IF r.queries = 0 THEN {"ok"} ELSE ExecOutcomes) :
        Respond("table", req, IxExecuted(r, xo))

\* what a probe of the table can meet now: nothing is probed once the table
\* is in the dict
Probes(table) == IF table \in DOMAIN SCHEMA_CACHE THEN {"ok"} ELSE ProbeOutcomes

\* GET /api/{table} on supabase_api.py: a route exists for the names of TABLES
\* only (lines 283-284); any other path is answered 404 by the router
RawEndpoint ==
    /\ app = "supabase_api"
    /\ \E req \in Requests :
         IF req.table \notin TABLES
         THEN Respond("table", req,
                      Response(404, Detail("route", <<>>), SCHEMA_CACHE, 0, 0, NoSchema, NoPlan))
         ELSE \E po \in Probes(req.table) :
                 RawRespond(req, endpoint(req, SCHEMA_CACHE, po))
    /\ UNCHANGED <<app, pc, local>>

\* GET /api/meta/schema/{table} on supabase_api.py
RawTableSchema ==
    /\ app = "supabase_api"
    /\ \E req \in MetaRequests :
         \E po \in Probes(req.table) :
            Respond("meta_schema", req, table_schema(req, SCHEMA_CACHE, po))
    /\ UNCHANGED <<app, pc, local>>

\* GET /api/meta/tables on supabase_api.py
RawListTables ==
    /\ app = "supabase_api"
    /\ \E req \in MetaRequests :
         /\ req.table = "orders"
         /\ Respond("meta_tables", req, list_tables(req, SCHEMA_CACHE))
    /\ UNCHANGED <<app, pc, local>>

\* GET /api/{table} on api/index.py
IxProxy ==
    /\ app = "api_index"
    /\ \E req \in Requests :
         \E po \in Probes(req.table) :
            IxRespond(req, proxy(req, SCHEMA_CACHE, po))
    /\ UNCHANGED <<app, pc, local>>

Next == RawEndpoint \/ RawTableSchema \/ RawListTables \/ IxProxy

Spec == Init /\ [][Next]_vars

----------------------------------------------------------------------------
(* supabase_api.py under concurrent requests: table_schema is a sync handler,
   so the server runs each call on a thread of its pool.  A thread can be
   preempted between the membership test of get_schema (line 91), the probe
   (fetch_schema, blocking I/O), the store (line 92) and the read (line 93). *)

InitConc ==
    /\ app = "supabase_api"
    /\ SCHEMA_CACHE = EmptyDict
    /\ last = Served("none", NoRequest,
                     Response(0, NoDetail, EmptyDict, 0, 0, NoSchema, NoPlan))
    /\ pc = [th \in Threads |-> "idle"]
    /\ local = [th \in Threads |-> NoLocal]

\* table_schema lines 204-205 and get_schema line 91
TsBegin(th) ==
    /\ pc[th] = "idle"
    /\ \E req \in MetaRequests :
         IF check_api_key(req.hdr) # 200
         THEN /\ local' = [local EXCEPT ![th] = [NoLocal EXCEPT !.req = req,
                                                  !.status = check_api_key(req.hdr)]]
              /\ pc' = [pc EXCEPT ![th] = "done"]
         ELSE IF ~get_table_or_404(req.table)
         THEN /\ local' = [local EXCEPT ![th] = [NoLocal EXCEPT !.req = req, !.status = 404]]
              /\ pc' = [pc EXCEPT ![th] = "done"]
         ELSE /\ local' = [local EXCEPT ![th] = [NoLocal EXCEPT !.req = req]]
              /\ pc' = [pc EXCEPT ![th] =
                           IF req.table \notin DOMAIN SCHEMA_CACHE THEN "fetch" ELSE "return"]
    /\ UNCHANGED <<app, SCHEMA_CACHE, last>>

\* get_schema line 92, right-hand side: fetch_schema(table) returns
TsFetch(th) ==
    /\ pc[th] = "fetch"
    /\ \E po \in ProbeOutcomes :
         local' = [local EXCEPT ![th].fetched = fetch_schema(local[th].req.table, po)]
    /\ pc' = [pc EXCEPT ![th] = "store"]
    /\ UNCHANGED <<app, SCHEMA_CACHE, last>>

\* get_schema line 92: SCHEMA_CACHE[table] = ...
TsStore(th) ==
    /\ pc[th] = "store"
    /\ SCHEMA_CACHE' = DictSet(SCHEMA_CACHE, local[th].req.table, local[th].fetched)
    /\ pc' = [pc EXCEPT ![th] = "return"]
    /\ UNCHANGED <<app, last, local>>

\* get_schema line 93 and table_schema line 206: return SCHEMA_CACHE[table]
TsReturn(th) ==
    /\ pc[th] = "return"
    /\ local' = [local EXCEPT ![th].status = 200,
                              ![th].columns = SCHEMA_CACHE[local[th].req.table]]
    /\ pc' = [pc EXCEPT ![th] = "done"]
    /\ UNCHANGED <<app, SCHEMA_CACHE, last>>

\* the response is sent and the thread goes back to the pool
TsDone(th) ==
    /\ pc[th] = "done"
    /\ local' = [local EXCEPT ![th] = NoLocal]
    /\ pc' = [pc EXCEPT ![th] = "idle"]
    /\ UNCHANGED <<app, SCHEMA_CACHE, last>>

NextConc ==
    \E th \in Threads :
        TsBegin(th) \/ TsFetch(th) \/ TsStore(th) \/ TsReturn(th) \/ TsDone(th)

SpecConc == InitConc /\ [][NextConc]_vars

----------------------------------------------------------------------------
(* Vocabulary of the claims *)

\* the allow-list of the running entry point
AllowList == IF app = "supabase_api" THEN TABLES ELSE IX_TABLES

\* the column names of a schema as the running entry point stores it
ColumnNames(schema) ==
    IF app = "supabase_api" THEN allowed_columns_set(schema) ELSE Range(schema)

\* the last request went to an endpoint that exists and asks for the key
Authenticated ==
    /\ last.ep \in {"table", "meta_schema", "meta_tables"}
    /\ (app = "supabase_api" /\ last.ep = "table") => last.req.table \in TABLES

\* the query parameters of the last request, as the handler receives them
Received == IF app = "supabase_api" THEN last.req.qs ELSE parse_qs(last.req.qs)

\* the filter parameters among them
FilterParams == LET IsFilter(p) == p.k \notin skip IN SelectSeq(Received, IsFilter)

\* the identifiers and keywords of the statement
SqlKeywords ==
    {"SELECT", "*", ",", "COUNT(*) OVER() AS full_count,", "FROM", "WHERE", "AND",
     "=", "!=", ">", ">=", "<", "<=", "LIKE", "ILIKE", "IN", "(", ")",
     "IS NULL", "IS TRUE", "IS FALSE", "ORDER BY", "ASC", "DESC", "LIMIT", "OFFSET"}

\* the operands the last query carries for its filters
Operands ==
    IF app = "supabase_api"
    THEN [i \in 1..(Len(last.plan.params) - 2) |-> last.plan.params[i].s]
    ELSE Flatten([i \in 1..Len(last.plan.calls) |->
                    IF last.plan.calls[i].m \in {"select", "order", "range"} THEN <<>>
                    ELSE last.plan.calls[i].args])

\* the last query has a filter clause
HasClause ==
    IF app = "supabase_api"
    THEN \E i \in 1..Len(last.plan.sql) : last.plan.sql[i] = Kw("WHERE")
    ELSE \E i \in 1..Len(last.plan.calls) :
            last.plan.calls[i].m \notin {"select", "order", "range"}

\* what the last request compiled to: its plan, or its validation error
Compiled(l) ==
    [plan |-> l.plan,
     error |-> IF l.queries = 0 THEN [status |-> l.status, detail |-> l.detail]
               ELSE [status |-> 200, detail |-> NoDetail]]

----------------------------------------------------------------------------
(* The claims *)

\* C1: a request to an authenticated endpoint whose X-API-Key is missing or
\* differs from the configured key is answered 401, and no schema probe and
\* no row query happens while it is served, whatever the table and the query
\* parameters are.
C1_Unauthorized ==
    (Authenticated /\ last.req.hdr # API_KEY)
        => (last.status = 401 /\ last.probes = 0 /\ last.queries = 0)

\* C2: in supabase_api.py every statement handed to the cursor is made of
\* fixed keywords, %s placeholders and identifiers only; there are as many
\* placeholders as parameters, the parameters being the filter operands
\* followed by limit and offset; every operand comes from a filter value of
\* the request; every identifier is a column of the table's cached schema or
\* a name of the allow-list.
C2_Parameterised ==
    (app = "supabase_api" /\ last.ep = "table" /\ last.queries = 1) =>
        LET sql == last.plan.sql
            params == last.plan.params
            n == Len(params)
        IN /\ \A i \in 1..Len(sql) :
                \/ sql[i].k = "kw" /\ sql[i].s[1] \in SqlKeywords
                \/ sql[i] = Ph
                \/ /\ sql[i].k = "id"
                   /\ \/ sql[i].s \in allowed_columns_set(SCHEMA_CACHE[last.req.table])
                      \/ \E t \in TABLES : sql[i].s = <<t>>
           /\ Cardinality({i \in 1..Len(sql) : sql[i] = Ph}) = n
           /\ n >= 2
           /\ params[n - 1] = PInt(last.plan.limit)
           /\ params[n] = PInt(last.plan.offset)
           /\ \A i \in 1..(n - 2) :
                /\ params[i].k = "str"
                /\ \E j \in 1..Len(FilterParams) :
                      \/ params[i].s = FilterParams[j].v
                      \/ params[i].s \in Range(StripNonEmpty(Split(FilterParams[j].v, ",")))

\* C2, its case: a statement with an IN clause of two operands was executed
C2_Witness ==
    /\ app = "supabase_api" /\ last.ep = "table" /\ last.queries = 1
    /\ Len(last.plan.params) = 4
    /\ \E i \in 1..Len(last.plan.sql) : last.plan.sql[i] = Kw("IN")

\* C3: an authenticated request to /api/{table} or /api/meta/schema/{table}
\* for a table outside the allow-list is answered 404 without a schema probe
\* or a row query, and SCHEMA_CACHE never holds a key outside the allow-list.
C3_NotFound ==
    /\ (last.ep \in {"table", "meta_schema"} /\ last.req.hdr = API_KEY
           /\ last.req.table \notin AllowList)
         => (last.status = 404 /\ last.probes = 0 /\ last.queries = 0)
    /\ DOMAIN SCHEMA_CACHE \subseteq AllowList

\* C3, its case: the schema of a table outside the allow-list was asked for
\* with the right key
C3_Witness ==
    /\ last.ep = "meta_schema" /\ last.req.hdr = API_KEY
    /\ last.req.table \notin AllowList
    /\ last.status = 404

\* C4: with a non-empty schema, a filter key that references a column outside
\* it, with any operator and any value, makes the request fail with 400
\* naming the column, and no row query runs.
C4_UnknownColumnRejected ==
    (last.ep = "table" /\ last.gs.called /\ last.gs.value # <<>>) =>
        \A i \in 1..Len(last.req.qs) :
            (/\ last.req.qs[i].k \notin skip
             /\ SplitKey(last.req.qs[i].k).col \notin ColumnNames(last.gs.value))
            => /\ last.status = 400
               /\ last.detail = Detail("column", <<SplitKey(last.req.qs[i].k).col>>)
               /\ last.queries = 0

C6_ProbeOnce ==
    [][(last.gs.called /\ last'.gs.called /\ last'.req.table = last.req.table)
        => (last'.probes = 0 /\ last'.gs.value = last.gs.value)]_vars

\* C7: the limit of every executed query is 100 when the parameter is absent
\* and lies in [1, 1000]; the offset is 0 when absent and never negative.
C7_Window ==
    (last.ep = "table" /\ last.queries = 1) =>
        /\ last.plan.limit >= MIN_LIMIT /\ last.plan.limit <= MAX_LIMIT
        /\ ~Has(last.req.qs, <<"limit">>) => last.plan.limit = DEFAULT_LIMIT
        /\ last.plan.offset >= 0
        /\ ~Has(last.req.qs, <<"offset">>) => last.plan.offset = 0

\* C8: two successive requests for the same table with the same parameters
\* compile to the same plan or to the same validation error, in any state of
\* the process.
C8_Idempotent ==
    [][(last.ep = "table" /\ last'.ep = "table" /\ last'.req = last.req)
        => Compiled(last') = Compiled(last)]_vars

\* C9: for a filter in__c=v on a column of the schema, the clause carries the
\* segments of v between commas without the empty ones: every segment that
\* is not blank is an operand, every operand is a segment, no operand is
\* empty, and when every segment is empty there is no clause. White space
\* around a segment may be trimmed or kept.
C9_InSegments ==
    (/\ last.ep = "table" /\ last.queries = 1
     /\ Len(last.req.qs) = 1
     /\ SplitKey(last.req.qs[1].k).op = <<"in">>
     /\ SplitKey(last.req.qs[1].k).col \in ColumnNames(last.gs.value)) =>
        LET segs == Split(last.req.qs[1].v, ",")
        IN /\ \A i \in 1..Len(segs) :
                Strip(segs[i]) # <<>> =>
                    \E j \in 1..Len(Operands) : Strip(Operands[j]) = Strip(segs[i])
           /\ \A j \in 1..Len(Operands) :
                /\ Operands[j] # <<>>
                /\ \E i \in 1..Len(segs) : Strip(Operands[j]) = Strip(segs[i])
           /\ (\A i \in 1..Len(segs) : segs[i] = <<>>) => ~HasClause

\* C10: under concurrent requests the dict is write-once for each key: once
\* a value is stored for a table no later write changes it, so every later
\* read of the table returns it.
C10_WriteOnce ==
    [][\A t \in DOMAIN SCHEMA_CACHE :
          t \in DOMAIN SCHEMA_CACHE' /\ SCHEMA_CACHE'[t] = SCHEMA_CACHE[t]]_vars

\* the columns the select parameter of the last request names
SelectedColumns ==
    IF Get(Received, <<"select">>, <<"*">>) = <<"*">> THEN {}
    ELSE Range(StripNonEmpty(Split(Get(Received, <<"select">>, <<"*">>), ",")))

\* the checks the running entry point makes on the columns of the last
\* request all passed against the schema it resolved: supabase_api.py checks
\* the select list, every filter with a value and the order column;
\* api/index.py checks the filters only, and applies those that pass
ValidationPassed ==
    IF app = "supabase_api"
    THEN /\ SelectedColumns \subseteq ColumnNames(last.gs.value)
         /\ \A i \in 1..Len(FilterParams) :
               FilterParams[i].v # <<>> =>
                  SplitKey(FilterParams[i].k).col \in ColumnNames(last.gs.value)
         /\ Get(Received, <<"order">>, <<>>) # <<>> =>
               Get(Received, <<"order">>, <<>>) \in ColumnNames(last.gs.value)
    ELSE \A i \in 1..Len(last.plan.calls) :
            last.plan.calls[i].m \notin {"select", "order", "range"} =>
               last.plan.calls[i].col \in ColumnNames(last.gs.value)

\* the status a failed row query is answered with
GatewayError == IF app = "supabase_api" THEN 502 ELSE 500

CountRequested ==
    /\ app = "supabase_api" /\ last.ep = "table"
    /\ last.status = 200 /\ last.queries = 1
    /\ Get(last.req.qs, <<"count">>, <<>>) # <<>>

\* C12: when a total count is asked for, the count field of the response of
\* the table endpoint of supabase_api.py is the number of rows that satisfy
\* the filters, whatever the limit and the offset are, also when the offset
\* is at or past that number.
C12_WindowedCount == CountRequested => last.body.count = last.matching

====
